---- MODULE Spec2Model ----
(***************************************************************************)
(* The Connect Four engine of src/src/connect_four.rs (struct ConnectFour) *)
(* as a state machine.  The grid is kept row-major as in the source, row 0 *)
(* is the top row, and the four match_* scans are computed offset by       *)
(* offset as the source computes them.                                     *)
(***************************************************************************)
EXTENDS Integers, Sequences, FiniteSets, TLC

VARIABLES
    grid,       \* ConnectFour.grid, row-major: index columns * row + column
    coins,      \* ConnectFour.coins: the number of coins in each column
    player,     \* ConnectFour.player: the current player
    winner,     \* ConnectFour.winner: None or a player
    turns,      \* ConnectFour.turns
    last,       \* the last call: "new", "play", "rejected", "scan_panic", "reset"
    ret,        \* what the last call handed back: Returned(v) or Panicked(message)
    plays,      \* history: successful play calls since new or reset
    playsInto,  \* history: successful play calls per column since new or reset
    inputs,     \* the columns the caller of this run passes to play
    selected_column,  \* Game.selected_column
    animation,  \* Game.animation: NoAnimation or SomeAnimation(current_row, target_row, column)
    looping,    \* Game.looping
    ui_event,   \* history: the key of the last loop iteration, "none" without one
    play_arg,   \* history: the column the last iteration passed to play, -1 without a call
    loop_steps  \* history: iterations of the search loop of the last move_left or move_right

vars == <<grid, coins, player, winner, turns, last, ret, plays, playsInto, inputs,
          selected_column, animation, looping, ui_event, play_arg, loop_steps>>

ui == <<selected_column, animation, looping, ui_event, play_arg, loop_steps>>

engine == <<grid, coins, player, winner, turns>>

ROWS == 6

COLUMNS == 7

\* Successful plays explored per game when the caller uses every column.
MaxTurns == 7

\* Successful plays explored per game when the caller stays in a band of columns.
MaxBandTurns == 11

None == "None"

Player == {"One", "Two"}

\* Returned values are tuples: () is the empty tuple, a usize r is <<r>>.
Unit == <<>>

\* What a call hands back: it returns a value, or it panics with a message.
Returned(v) == [panic |-> "", value |-> v]

Panicked(message) == [panic |-> message, value |-> Unit]

Min(a, b) == IF a <= b THEN a ELSE b

\* Mutant: both arms of the match give Player Two.
opponent_stuck(p) == IF p = "One" THEN "Two" ELSE "Two"

opponent(p) == IF p = "One" THEN "Two" ELSE "One"

rows == ROWS

columns == COLUMNS

size == ROWS * COLUMNS

last_row == rows - 1

last_column == columns - 1

\* The columns a caller passes to play: every valid index and one past the end.
ColumnInputs == 0..COLUMNS

\* Callers that stay in the four leftmost or the four rightmost columns.
Bands == {0..3, (COLUMNS - 4)..(COLUMNS - 1)}

\* Mutant: the game is over only once there is a winner.
over_winner_only == winner # None

\* Mutant: the full grid is compared against one turn too many.
over_late == winner # None \/ turns = size + 1

over == winner # None \/ turns = size

\* Mutant: the count is compared with the last row, not the number of rows.
is_column_full_early(column) == coins[column] = last_row

is_column_full(column) == coins[column] = rows

\* The assertion of get_index: the position lies in the grid.
InBounds(row, column) == row >= 0 /\ row < rows /\ column >= 0 /\ column < columns

get_index(row, column) == columns * row + column

get(g, row, column) == g[get_index(row, column)]

\* Mutant: the fourth cell is not compared, three in a row match.
match_indices_three(g, run) ==
    LET p == [i \in 1..4 |-> g[get_index(run[i][1], run[i][2])]]
    IN  p[1] # None /\ p[1] = p[2] /\ p[2] = p[3]

\* A run is the four positions one call of match_indices reads.
match_indices(g, run) ==
    LET p == [i \in 1..4 |-> g[get_index(run[i][1], run[i][2])]]
    IN  p[1] # None /\ p[1] = p[2] /\ p[2] = p[3] /\ p[3] = p[4]

\* Mutant: the first offset is one too large, so the run that ends at the new
\* coin is never read.
row_min_offset_late(column) == 4 - Min(column, 3)

row_min_offset(column) == 3 - Min(column, 3)

\* Mutant: the last offset is dropped, so the run that starts at the new coin
\* is never read.
row_max_offset_short(column) == Min(last_column - column, 2)

row_max_offset(column) == Min(last_column - column, 3)

row_runs(row, column) ==
    { << <<row, column + offset>>, <<row, column + offset - 1>>,
         <<row, column + offset - 2>>, <<row, column + offset - 3>> >> :
      offset \in row_min_offset(column)..row_max_offset(column) }

column_min_offset(row) == 3 - Min(row, 3)

column_max_offset(row) == Min(last_row - row, 3)

column_runs(row, column) ==
    { << <<row + offset, column>>, <<row + offset - 1, column>>,
         <<row + offset - 2, column>>, <<row + offset - 3, column>> >> :
      offset \in column_min_offset(row)..column_max_offset(row) }

diagonal_min_offset(row, column) == 3 - Min(Min(row, column), 3)

diagonal_max_offset(row, column) ==
    Min(Min(last_row - row, last_column - column), 3)

diagonal_runs(row, column) ==
    { << <<row + offset, column + offset>>,
         <<row + offset - 1, column + offset - 1>>,
         <<row + offset - 2, column + offset - 2>>,
         <<row + offset - 3, column + offset - 3>> >> :
      offset \in diagonal_min_offset(row, column)..diagonal_max_offset(row, column) }

\* Mutant: the near edge is taken from the column, as in match_diagonal.
alternate_min_offset_copied(row, column) == 3 - Min(Min(row, column), 3)

alternate_min_offset(row, column) == 3 - Min(Min(row, last_column - column), 3)

alternate_max_offset(row, column) == Min(Min(last_row - row, column), 3)

alternate_runs(row, column) ==
    { << <<row + offset, column - offset>>,
         <<row + offset - 1, column - offset + 1>>,
         <<row + offset - 2, column - offset + 2>>,
         <<row + offset - 3, column - offset + 3>> >> :
      offset \in alternate_min_offset(row, column)..alternate_max_offset(row, column) }

RunInBounds(run) == \A i \in 1..4 : InBounds(run[i][1], run[i][2])

match_row(g, row, column) == \E run \in row_runs(row, column) : match_indices(g, run)

match_column(g, row, column) == \E run \in column_runs(row, column) : match_indices(g, run)

match_diagonal(g, row, column) ==
    \E run \in diagonal_runs(row, column) : match_indices(g, run)

match_alternate_diagonal(g, row, column) ==
    \E run \in alternate_runs(row, column) : match_indices(g, run)

\* Every run the four scans of one play read.
ScanRuns(row, column) ==
    row_runs(row, column) \cup column_runs(row, column)
        \cup diagonal_runs(row, column) \cup alternate_runs(row, column)

\* The four scans of play, in the order play calls them: some run matched.
ScanMatches(g, row, column) ==
    \/ match_row(g, row, column)
    \/ match_column(g, row, column)
    \/ match_diagonal(g, row, column)
    \/ match_alternate_diagonal(g, row, column)

\* The row play computes for the new coin.
LandingRow(column) == last_row - coins[column]

\* The grid after play stores the current player at the landing cell.
PlacedGrid(column) ==
    [grid EXCEPT ![get_index(LandingRow(column), column)] = player]

\* Mutant: the winner is stored after the turn has flipped.
ScanWinner_flipped(g, row, column) ==
    IF ScanMatches(g, row, column) THEN opponent(player) ELSE winner

\* Mutant: the winner field is the result of the last scan.
ScanWinner_cleared(g, row, column) ==
    IF ScanMatches(g, row, column) THEN player ELSE None

\* The winner after the scans of play: a matching run stores the player who moved.
ScanWinner(g, row, column) == IF ScanMatches(g, row, column) THEN player ELSE winner

\* The value play hands back to its caller.
PlayReturn(row) == Unit

EmptyEngine ==
    /\ grid = [i \in 0..(size - 1) |-> None]
    /\ coins = [c \in 0..(COLUMNS - 1) |-> 0]
    /\ player = "One"
    /\ winner = None
    /\ turns = 0
    /\ last = "new"
    /\ ret = Returned(Unit)
    /\ plays = 0
    /\ playsInto = [c \in 0..(COLUMNS - 1) |-> 0]

\* Option<Animation>: None, or Some of the three rows and columns of Animation
\* (its start instant is the elapsed choice of tick_animation).
NoAnimation == [some |-> FALSE, current_row |-> 0, target_row |-> 0, column |-> 0]

SomeAnimation(current_row, target_row, column) ==
    [some |-> TRUE, current_row |-> current_row, target_row |-> target_row,
     column |-> column]

NewGame ==
    /\ selected_column = 0
    /\ animation = NoAnimation
    /\ looping = TRUE
    /\ ui_event = "new"
    /\ play_arg = -1
    /\ loop_steps = 0

Init == EmptyEngine /\ NewGame /\ inputs = ColumnInputs

InitBand == EmptyEngine /\ NewGame /\ inputs \in Bands

\* Mutant: the assertion on the full column is missing.
PlayAccepts_any_height(column) == column < columns

\* The two assertions at the head of play, in order.
PlayAccepts(column) == column < columns /\ ~is_column_full(column)

\* The message of the assertion that stops play(column).
PlayPanic(column) ==
    IF ~(column < columns) THEN "Column out of bounds" ELSE "Column is full"

play(column) ==
    /\ column \in ColumnInputs
    /\ IF ~PlayAccepts(column)
       THEN /\ last' = "rejected"
            /\ ret' = Panicked(PlayPanic(column))
            /\ UNCHANGED <<engine, plays, playsInto>>
       ELSE LET row == LandingRow(column)
                g == PlacedGrid(column)
            IN  /\ grid' = g
                /\ coins' = [coins EXCEPT ![column] = @ + 1]
                /\ IF \A run \in ScanRuns(row, column) : RunInBounds(run)
                   THEN /\ winner' = ScanWinner(g, row, column)
                        /\ turns' = turns + 1
                        /\ player' = opponent(player)
                        /\ last' = "play"
                        /\ ret' = Returned(PlayReturn(row))
                        /\ plays' = plays + 1
                        /\ playsInto' = [playsInto EXCEPT ![column] = @ + 1]
                   ELSE /\ last' = "scan_panic"
                        /\ ret' = Panicked("Position out of bounds")
                        /\ UNCHANGED <<winner, turns, player, plays, playsInto>>

\* Mutant: reset forgets to zero the turn counter.
reset_keeps_turns ==
    /\ grid' = [i \in 0..(size - 1) |-> None]
    /\ coins' = [c \in 0..(COLUMNS - 1) |-> 0]
    /\ winner' = None
    /\ last' = "reset"
    /\ ret' = Returned(Unit)
    /\ plays' = 0
    /\ playsInto' = [c \in 0..(COLUMNS - 1) |-> 0]
    /\ UNCHANGED <<player, turns>>

\* Mutant: reset forgets to zero the column counts.
reset_keeps_coins ==
    /\ grid' = [i \in 0..(size - 1) |-> None]
    /\ winner' = None
    /\ turns' = 0
    /\ last' = "reset"
    /\ ret' = Returned(Unit)
    /\ plays' = 0
    /\ playsInto' = [c \in 0..(COLUMNS - 1) |-> 0]
    /\ UNCHANGED <<player, coins>>

reset ==
    /\ grid' = [i \in 0..(size - 1) |-> None]
    /\ coins' = [c \in 0..(COLUMNS - 1) |-> 0]
    /\ winner' = None
    /\ turns' = 0
    /\ UNCHANGED player
    /\ last' = "reset"
    /\ ret' = Returned(Unit)
    /\ plays' = 0
    /\ playsInto' = [c \in 0..(COLUMNS - 1) |-> 0]

\* One call by the caller of this run; cap bounds the successful plays of a game.
Call(cap) ==
    \/ \E column \in inputs :
          /\ PlayAccepts(column) => turns < cap
          /\ play(column)
          /\ UNCHANGED <<inputs, ui>>
    \/ reset /\ UNCHANGED <<inputs, ui>>

Next == Call(MaxTurns)

Spec == Init /\ [][Next]_vars

NextBand == Call(MaxBandTurns)

SpecBand == InitBand /\ [][NextBand]_vars

----------------------------------------------------------------------------
(* A caller that fills the whole grid.  It plays the grid level by level,  *)
(* the columns of a level in DrawOrder, which leaves no four-in-a-row on   *)
(* the way to a full grid, and it chooses freely among the columns that    *)
(* are not full for the last FreeTurns plays.  It stops playing when the   *)
(* game is over.                                                           *)

\* Plays at the end of a game for which the caller picks any open column.
FreeTurns == 14

DrawOrder == <<0, 2, 1, 3, 4, 6, 5>>

\* The columns the caller passes to play after n plays, with column counts cs,
\* when it chooses freely for the last free plays.
FillInputs(free, n, cs) ==
    IF n < size - free
    THEN {DrawOrder[(n % COLUMNS) + 1]}
    ELSE {c \in 0..(COLUMNS - 1) : cs[c] < ROWS}

InitFill == EmptyEngine /\ NewGame /\ inputs = FillInputs(FreeTurns, 0, [c \in 0..(COLUMNS - 1) |-> 0])

NextFill ==
    \/ \E column \in inputs :
          /\ ~over
          /\ play(column)
          /\ inputs' = FillInputs(FreeTurns, plays', coins')
          /\ UNCHANGED ui
    \/ /\ reset
       /\ inputs' = FillInputs(FreeTurns, 0, coins')
       /\ UNCHANGED ui

SpecFill == InitFill /\ [][NextFill]_vars

----------------------------------------------------------------------------
(* The terminal game of src/src/main.rs (struct Game): one action is one   *)
(* iteration of game_loop, which ticks the animation and then handles the  *)
(* key that was read, if any.  Rendering changes no state.                 *)

\* Plays at the end of a game for which the user of the terminal game picks
\* any open column; before them the user plays the columns of DrawOrder.
UiFreeTurns == 9

\* tick_animation on Some(a); elapsed: ANIMATION_DURATION has passed since start.
tick_animation(a, elapsed) ==
    IF ~a.some THEN a
    ELSE IF a.current_row = a.target_row THEN NoAnimation
    ELSE IF elapsed THEN [a EXCEPT !.current_row = @ + 1]
    ELSE a

\* The loop of move_left on column counts cs: the column it stops at and the
\* iterations it took.  The loop changes nothing but the column, so it never
\* ends once it has tried every column.
RECURSIVE left_loop(_, _, _)
left_loop(cs, selected, steps) ==
    LET next == IF selected = 0 THEN last_column ELSE selected - 1
    IN  IF cs[next] # rows
        THEN [column |-> next, steps |-> steps + 1, ends |-> TRUE]
        ELSE IF steps + 1 >= columns
             THEN [column |-> next, steps |-> steps + 1, ends |-> FALSE]
             ELSE left_loop(cs, next, steps + 1)

\* The loop of move_right.
RECURSIVE right_loop(_, _, _)
right_loop(cs, selected, steps) ==
    LET next == IF selected = last_column THEN 0 ELSE selected + 1
    IN  IF cs[next] # rows
        THEN [column |-> next, steps |-> steps + 1, ends |-> TRUE]
        ELSE IF steps + 1 >= columns
             THEN [column |-> next, steps |-> steps + 1, ends |-> FALSE]
             ELSE right_loop(cs, next, steps + 1)

move_left(is_over, cs, selected) ==
    IF is_over
    THEN [column |-> selected, steps |-> 0, ends |-> TRUE]
    ELSE left_loop(cs, selected, 0)

\* Mutant: move_right searches also when the game is over.
move_right_always(is_over, cs, selected) == right_loop(cs, selected, 0)

move_right(is_over, cs, selected) ==
    IF is_over
    THEN [column |-> selected, steps |-> 0, ends |-> TRUE]
    ELSE right_loop(cs, selected, 0)

\* The outcome of a move: the new column, or a loop that never ends.
Moved(event, m) ==
    /\ selected_column' = m.column
    /\ loop_steps' = m.steps
    /\ ui_event' = IF m.ends THEN event ELSE "hung"

\* An iteration starts while the loop runs and no handler is stuck or has
\* panicked.
Running == looping /\ ui_event \notin {"hung", "panic"}

\* No key was read, or a key handle_key_event ignores.
Idle ==
    \E elapsed \in BOOLEAN :
        /\ Running
        /\ animation' = tick_animation(animation, elapsed)
        /\ ui_event' = "none"
        /\ play_arg' = -1
        /\ loop_steps' = 0
        /\ UNCHANGED <<engine, last, ret, plays, playsInto, inputs, selected_column, looping>>

\* Esc: quit.
KeyEsc ==
    \E elapsed \in BOOLEAN :
        /\ Running
        /\ animation' = tick_animation(animation, elapsed)
        /\ looping' = FALSE
        /\ ui_event' = "esc"
        /\ play_arg' = -1
        /\ loop_steps' = 0
        /\ UNCHANGED <<engine, last, ret, plays, playsInto, inputs, selected_column>>

\* Left: move_left.
KeyLeft ==
    \E elapsed \in BOOLEAN :
        /\ Running
        /\ animation' = tick_animation(animation, elapsed)
        /\ Moved("left", move_left(over, coins, selected_column))
        /\ play_arg' = -1
        /\ UNCHANGED <<engine, last, ret, plays, playsInto, inputs, looping>>

\* Right: move_right.
KeyRight ==
    \E elapsed \in BOOLEAN :
        /\ Running
        /\ animation' = tick_animation(animation, elapsed)
        /\ Moved("right", move_right(over, coins, selected_column))
        /\ play_arg' = -1
        /\ UNCHANGED <<engine, last, ret, plays, playsInto, inputs, looping>>

\* Mutant: handle_play does not look at over.
handle_play_blocked_by_animation(a) == a.some

\* The early return of handle_play, a the animation after the tick.
handle_play_blocked(a) == over \/ a.some

\* Mutant: handle_play never moves off the column it played.
handle_play_move_never(column) == FALSE

\* handle_play moves right when the column it played has become full.
handle_play_move(column) == coins'[column] = rows

\* handle_play, a the animation after the tick.  main.rs reads the result of
\* play as the row the coin landed on, the row play computes.
handle_play(a) ==
    IF handle_play_blocked(a)
    THEN /\ animation' = a
         /\ ui_event' = "enter"
         /\ play_arg' = -1
         /\ loop_steps' = 0
         /\ UNCHANGED <<engine, last, ret, plays, playsInto, selected_column, looping>>
    ELSE LET column == selected_column
             row == LandingRow(column)
         IN  /\ play(column)
             /\ play_arg' = column
             /\ UNCHANGED looping
             /\ IF ret'.panic # ""
                THEN /\ animation' = a
                     /\ ui_event' = "panic"
                     /\ loop_steps' = 0
                     /\ UNCHANGED selected_column
                ELSE /\ animation' = IF row # 0 THEN SomeAnimation(0, row, column) ELSE a
                     /\ IF handle_play_move(column)
                        THEN Moved("enter", move_right(over', coins', column))
                        ELSE /\ ui_event' = "enter"
                             /\ loop_steps' = 0
                             /\ UNCHANGED selected_column

\* Enter or space: handle_play.  The user presses it on a column of inputs,
\* or when the game is over.
KeyEnter ==
    \E elapsed \in BOOLEAN :
        /\ Running
        /\ over \/ selected_column \in inputs
        /\ handle_play(tick_animation(animation, elapsed))
        /\ inputs' = FillInputs(UiFreeTurns, plays', coins')

\* r: handle_restart.
KeyR ==
    \E elapsed \in BOOLEAN :
        /\ Running
        /\ animation' = tick_animation(animation, elapsed)
        /\ reset
        /\ selected_column' = 0
        /\ ui_event' = "restart"
        /\ play_arg' = -1
        /\ loop_steps' = 0
        /\ inputs' = FillInputs(UiFreeTurns, 0, coins')
        /\ UNCHANGED looping

InitUi ==
    /\ EmptyEngine
    /\ NewGame
    /\ inputs = FillInputs(UiFreeTurns, 0, [c \in 0..(COLUMNS - 1) |-> 0])

NextUi == Idle \/ KeyEsc \/ KeyLeft \/ KeyRight \/ KeyEnter \/ KeyR

SpecUi == InitUi /\ [][NextUi]_vars

----------------------------------------------------------------------------
(* Reference definitions the claims are stated with.  They scan the whole  *)
(* board cell by cell and share nothing with the offset windows above.     *)

Directions == {<<0, 1>>, <<1, 0>>, <<1, 1>>, <<1, -1>>}

\* The four cells starting at (r, c) and stepping by d lie in the grid and
\* hold the same player.
FourFrom(g, r, c, d) ==
    /\ \A k \in 0..3 : /\ r + k * d[1] \in 0..(ROWS - 1)
                       /\ c + k * d[2] \in 0..(COLUMNS - 1)
    /\ g[COLUMNS * r + c] # None
    /\ \A k \in 1..3 : g[COLUMNS * (r + k * d[1]) + (c + k * d[2])] = g[COLUMNS * r + c]

\* Every line of four consecutive cells of the grid, as grid indices.
Lines ==
    { [k \in 0..3 |-> COLUMNS * (t[1] + k * t[3][1]) + (t[2] + k * t[3][2])] :
      t \in { u \in (0..(ROWS - 1)) \X (0..(COLUMNS - 1)) \X Directions :
                \A k \in 0..3 : /\ u[1] + k * u[3][1] \in 0..(ROWS - 1)
                                /\ u[2] + k * u[3][2] \in 0..(COLUMNS - 1) } }

\* Brute force: some four consecutive cells of the board hold the same player.
BruteForceWin(g) ==
    \E ln \in Lines :
        g[ln[0]] # None /\ g[ln[1]] = g[ln[0]] /\ g[ln[2]] = g[ln[0]] /\ g[ln[3]] = g[ln[0]]

\* Some four-in-a-row of g passes through the cell (row, column).
CompletesFour(g, row, column) ==
    \E d \in Directions, k \in 0..3 : FourFrom(g, row - k * d[1], column - k * d[2], d)

Occupied(g) == {i \in 0..(ROWS * COLUMNS - 1) : g[i] # None}

ValidColumns == 0..(COLUMNS - 1)

\* The step is an accepted play(column): play alone sets last to "play", and
\* it adds a coin to its column only.
AcceptedPlay(column) == last' = "play" /\ coins'[column] = coins[column] + 1

----------------------------------------------------------------------------
\* C1: on every accepted play made while the game is not over, the window
\* scans of play match some run, and play reports a winner, exactly when a
\* brute-force scan of the whole board after the move finds four in a row.
C1_ScanAgreesWithBruteForce ==
    [][(last' = "play" /\ ~over) =>
        \A column \in ValidColumns :
            AcceptedPlay(column) =>
                /\ ScanMatches(grid', last_row - coins[column], column) <=> BruteForceWin(grid')
                /\ (winner' # None) <=> ScanMatches(grid', last_row - coins[column], column)]_vars

\* C1 witness: a play has just completed a diagonal four on a board that held
\* no four before: the ten coins are the diagonal and the coins under it.
C1_Witness ==
    /\ last = "play"
    /\ plays = 10
    /\ \E c0 \in 0..(COLUMNS - 4) :
          /\ \A k \in 0..3 : coins[c0 + k] = k + 1
          /\ FourFrom(grid, ROWS - 4, c0 + 3, <<1, -1>>)
          /\ winner = grid[get_index(ROWS - 4, c0 + 3)]
    /\ Cardinality({t \in (0..(ROWS - 1)) \X (0..(COLUMNS - 1)) \X Directions :
                        FourFrom(grid, t[1], t[2], t[3])}) = 1

\* C2: an accepted play(column) writes the player who moved into the lowest
\* empty cell of the column, row ROWS - 1 - coins[column], leaves every other
\* cell as it was, and hands that row back to its caller.
C2_PlayPlacesAndReturnsRow ==
    [][last' = "play" =>
        \A column \in ValidColumns :
            AcceptedPlay(column) =>
                LET row == ROWS - 1 - coins[column]
                IN  /\ grid[COLUMNS * row + column] = None
                    /\ \A r \in (row + 1)..(ROWS - 1) : grid[COLUMNS * r + column] # None
                    /\ grid'[COLUMNS * row + column] = player
                    /\ \A i \in 0..(ROWS * COLUMNS - 1) :
                          i # COLUMNS * row + column => grid'[i] = grid[i]
                    /\ ret' = Returned(<<row>>)]_vars

\* C3: reset leaves the engine in the state new() produces: every cell empty,
\* every column count 0, no turns, no winner, Player One to move.
C3_ResetRestoresInitial ==
    last = "reset" =>
        /\ \A i \in 0..(ROWS * COLUMNS - 1) : grid[i] = None
        /\ \A c \in ValidColumns : coins[c] = 0
        /\ turns = 0
        /\ winner = None
        /\ player = "One"

\* C4 as stated: once the winner is Some(p), every call but reset leaves it
\* Some(p).
C4_WinnerNeverChanges ==
    [][(winner # None /\ last' # "reset") => winner' = winner]_vars

\* C4 as amended: once the winner is set, no call but reset clears it, and a
\* play changes it only by completing a four-in-a-row of its own, after the
\* game is over, which makes the player who moved the winner.
C4_WinnerNeverCleared ==
    [][(winner # None /\ last' # "reset") =>
        \/ winner' = winner
        \/ /\ winner' = player
           /\ \E column \in ValidColumns :
                 /\ AcceptedPlay(column)
                 /\ CompletesFour(grid', ROWS - 1 - coins[column], column)]_vars

\* C4 witness: the seventh play won the game and the eighth, made after the
\* game was over, left the winner alone (the winner is to move again).
C4_Witness ==
    /\ last = "play"
    /\ plays = 8
    /\ winner # None
    /\ winner = player

\* C5: when an accepted play completes a four-in-a-row through its coin, the
\* winner afterwards is the player who moved, not the player whose turn it
\* becomes.
C5_WinnerIsMover ==
    [][last' = "play" =>
        \A column \in ValidColumns :
            (AcceptedPlay(column) /\ CompletesFour(grid', ROWS - 1 - coins[column], column))
                => (winner' = player /\ winner' # player')]_vars

\* C5 witness: the seventh play of a game, the first that can win, has won:
\* the winner is the player who moved, and it is the opponent's turn.
C5_Witness ==
    /\ last = "play"
    /\ plays = 7
    /\ BruteForceWin(grid)
    /\ winner = opponent(player)

\* The call play(column) breaks a precondition of play.
IllegalMove(column) == column \notin ValidColumns \/ coins[column] = ROWS

\* C6: play(column) with the column out of range or full fails, and nothing
\* of the engine has changed when it does: grid, column counts, turns, winner
\* and current player are as before the call.
C6_RejectedPlayChangesNothing ==
    [][\A column \in inputs :
        (IllegalMove(column) /\ play(column)) =>
            /\ ret'.panic # ""
            /\ grid' = grid
            /\ coins' = coins
            /\ turns' = turns
            /\ winner' = winner
            /\ player' = player]_vars

\* C6 witness: in the middle of a game a play was rejected for its column
\* index.
C6_Witness ==
    /\ last = "rejected"
    /\ ret = Panicked("Column out of bounds")
    /\ turns > 0

\* C7: a column is full exactly when ROWS successful plays have gone into it
\* since new or reset, never more than ROWS do, and a play into a column that
\* has taken ROWS of them fails on the full-column assertion.
C7_ColumnFullAfterRPlays ==
    [][\A c \in ValidColumns :
        /\ playsInto'[c] <= ROWS
        /\ is_column_full(c)' <=> (playsInto'[c] = ROWS)
        /\ (playsInto[c] = ROWS /\ play(c)) =>
              (ret' = Panicked("Column is full") /\ engine' = engine)]_vars

\* C7 witness: a column took its ROWS plays, interleaved with a play into
\* another column, and a further play into it has just been rejected.
C7_Witness ==
    /\ last = "rejected"
    /\ ret = Panicked("Column is full")
    /\ plays > ROWS
    /\ \E c \in ValidColumns : playsInto[c] = ROWS /\ is_column_full(c)

C9_TurnsCountCoins ==
    /\ turns = Cardinality(Occupied(grid))
    /\ turns = plays

\* C9 witness: three plays into a game that began with a reset (Player Two
\* moved first), three cells are occupied.
C9_Witness ==
    /\ last = "play"
    /\ plays = 3
    /\ player = "One"
    /\ Cardinality(Occupied(grid)) = 3

\* C10: no column holds more than ROWS coins, and the occupied cells of a
\* column are exactly its bottom coins[c] rows.
C10_ColumnsFilledFromBottom ==
    \A c \in ValidColumns :
        /\ coins[c] <= ROWS
        /\ \A r \in 0..(ROWS - 1) :
              (grid[COLUMNS * r + c] # None) <=> (r >= ROWS - coins[c])

\* C10 witness: one column is full to the top row and another holds one coin.
C10_Witness ==
    /\ last = "play"
    /\ \E c \in ValidColumns : coins[c] = ROWS /\ grid[c] # None
    /\ \E c \in ValidColumns : coins[c] = 1 /\ grid[COLUMNS * (ROWS - 1) + c] # None

\* C11 as stated: after every accepted play the winner is set exactly when
\* the coin just placed lies on a four-in-a-row, and after reset, with no coin
\* placed, it is not set.
C11_WinnerIffLastCoinWon ==
    [][/\ last' = "reset" => winner' = None
       /\ last' = "play" =>
            \A column \in ValidColumns :
                AcceptedPlay(column) =>
                    ((winner' # None) <=>
                        CompletesFour(grid', ROWS - 1 - coins[column], column))]_vars

\* C11 as amended: after every accepted play the winner is set exactly when
\* the coin just placed lies on a four-in-a-row or the winner was set before
\* the play; after reset it is not set.
C11_WinnerIffSomeCoinWon ==
    [][/\ last' = "reset" => winner' = None
       /\ last' = "play" =>
            \A column \in ValidColumns :
                AcceptedPlay(column) =>
                    ((winner' # None) <=>
                        \/ winner # None
                        \/ CompletesFour(grid', ROWS - 1 - coins[column], column))]_vars

\* C11 witness: in a game Player Two began after a reset, the seventh play,
\* the first that can win, completed a four and Player Two is the winner.
C11_Witness ==
    /\ last = "play"
    /\ plays = 7
    /\ winner = "Two"
    /\ player = "One"
    /\ BruteForceWin(grid)

\* C12: the game is over exactly when the winner is set or the grid is full,
\* and the grid is full (turns = ROWS * COLUMNS) exactly when every cell is
\* occupied, which is exactly when every column is full.
C12_OverIffWinnerOrFull ==
    /\ over <=> (winner # None \/ \A i \in 0..(ROWS * COLUMNS - 1) : grid[i] # None)
    /\ (turns = ROWS * COLUMNS) <=> (\A i \in 0..(ROWS * COLUMNS - 1) : grid[i] # None)
    /\ (turns = ROWS * COLUMNS) <=> (\A c \in ValidColumns : is_column_full(c))

\* C12 witness: the grid was filled by a last play that won the game: the
\* game is over on both counts.
C12_Witness ==
    /\ last = "play"
    /\ over
    /\ winner # None
    /\ \A i \in 0..(ROWS * COLUMNS - 1) : grid[i] # None
    /\ \A c \in ValidColumns : is_column_full(c)

\* C13: a game that filled all ROWS * COLUMNS cells by accepted plays, none
\* of which left a four-in-a-row on the board, has no winner and is over.
C13_FullGridWithoutFourIsDraw ==
    (plays = ROWS * COLUMNS /\ ~BruteForceWin(grid)) => (winner = None /\ over)

\* C13 witness: a drawn game: 42 plays, a full grid without a four-in-a-row.
C13_Witness ==
    /\ last = "play"
    /\ plays = ROWS * COLUMNS
    /\ \A i \in 0..(ROWS * COLUMNS - 1) : grid[i] # None
    /\ ~BruteForceWin(grid)
    /\ winner = None
    /\ over

\* Scenario A of the specification: the columns played from a fresh engine.
ScenarioA == <<0, 0, 1, 1, 2, 2, 3>>

\* The grid after the first k plays of scenario A, worked out by hand from
\* the rules: play j lands on the coins already in its column, Player One
\* makes the odd plays.
ScenarioGrids ==
    [k \in 0..Len(ScenarioA) |->
        [i \in 0..(ROWS * COLUMNS - 1) |->
            IF \E j \in 1..k :
                  i = COLUMNS * (ROWS - 1 - Cardinality({m \in 1..(j - 1) :
                                      ScenarioA[m] = ScenarioA[j]})) + ScenarioA[j]
            THEN LET j == CHOOSE j \in 1..k :
                              i = COLUMNS * (ROWS - 1 - Cardinality({m \in 1..(j - 1) :
                                      ScenarioA[m] = ScenarioA[j]})) + ScenarioA[j]
                 IN  IF j % 2 = 1 THEN "One" ELSE "Two"
            ELSE None]]

\* C14: after each of the first six plays of 0, 0, 1, 1, 2, 2, 3 from a fresh
\* engine there is no winner and the game is not over; after the seventh the
\* winner is Player One and the game is over.
C14_ScenarioA ==
    \A k \in 1..Len(ScenarioA) :
        (plays = k /\ grid = ScenarioGrids[k]) =>
            IF k < Len(ScenarioA)
            THEN winner = None /\ ~over
            ELSE winner = "One" /\ over

\* C14 witness: the seventh play of the scenario has been made: Player One
\* holds the bottom row of columns 0 to 3.
C14_Witness ==
    /\ last = "play"
    /\ plays = 7
    /\ grid = ScenarioGrids[7]
    /\ coins = [c \in 0..(COLUMNS - 1) |-> IF c < 3 THEN 2 ELSE IF c = 3 THEN 1 ELSE 0]
    /\ \A c \in 0..3 : grid[COLUMNS * (ROWS - 1) + c] = "One"
    /\ \A c \in 0..2 : grid[COLUMNS * (ROWS - 2) + c] = "Two"
    /\ winner = "One"

\* The cells of the runs of four consecutive in-grid cells along d that pass
\* through (row, column), each run as a set of cells.
RunsThrough(row, column, d) ==
    { run \in { {<<row + (j - k) * d[1], column + (j - k) * d[2]>> : j \in 0..3} :
                k \in 0..3 } :
        \A cell \in run : cell[1] \in 0..(ROWS - 1) /\ cell[2] \in 0..(COLUMNS - 1) }

\* The runs a scan reads are at most four, each four consecutive cells of the
\* grid along d with (row, column) among them, and none when the grid has no
\* such run; the offsets do not leave 0..3.
RunsWellFormed(runs, lo, hi, row, column, d) ==
    /\ lo >= 0
    /\ hi >= 0 /\ hi <= 3
    /\ Cardinality(runs) <= 4
    /\ \A run \in runs :
          /\ \A i \in 1..4 : run[i][1] \in 0..(ROWS - 1) /\ run[i][2] \in 0..(COLUMNS - 1)
          /\ \E i \in 1..4 : run[i] = <<row, column>>
          /\ {run[i] : i \in 1..4} \in RunsThrough(row, column, d)
    /\ RunsThrough(row, column, d) = {} => runs = {}

\* The step put a coin into the column, whether or not the scans then ran to
\* their end.
PlacedCoin(column) == coins'[column] = coins[column] + 1

\* For each cell of the grid: the runs of the four scans there are well formed.
ScanWellFormed ==
    [row \in 0..(ROWS - 1) |-> [column \in 0..(COLUMNS - 1) |->
        /\ RunsWellFormed(row_runs(row, column), row_min_offset(column),
                          row_max_offset(column), row, column, <<0, 1>>)
        /\ RunsWellFormed(column_runs(row, column), column_min_offset(row),
                          column_max_offset(row), row, column, <<1, 0>>)
        /\ RunsWellFormed(diagonal_runs(row, column),
                          diagonal_min_offset(row, column),
                          diagonal_max_offset(row, column), row, column, <<1, 1>>)
        /\ RunsWellFormed(alternate_runs(row, column),
                          alternate_min_offset(row, column),
                          alternate_max_offset(row, column), row, column, <<1, -1>>)]]

\* C16: for the landing cell of every play and each of the four directions,
\* the clamped offsets give at most four runs, every one inside the grid and
\* through the landing cell, and no run where the grid has none through it;
\* so no play stops on the assertion of get_index.
C16_RunsStayInGrid ==
    [][\A column \in ValidColumns :
        PlacedCoin(column) =>
            /\ ScanWellFormed[ROWS - 1 - coins[column]][column]
            /\ last' # "scan_panic"]_vars

\* C16 witness: the sixth play of a game landed in the top right corner,
\* where the down-right diagonal has no run and its offset range is empty.
C16_Witness ==
    /\ last = "play"
    /\ plays = ROWS
    /\ coins[COLUMNS - 1] = ROWS
    /\ diagonal_runs(0, COLUMNS - 1) = {}
    /\ alternate_runs(0, COLUMNS - 1) # {}

\* The number of cells of g that hold player p.
CoinsOf(g, p) == Cardinality({i \in 0..(ROWS * COLUMNS - 1) : g[i] = p})

\* C17: in every game Player One moves first and the turns alternate: Player
\* One is to move exactly when turns is even, and the grid holds as many coins
\* of Player One as of Player Two, or one more.
C17_TurnsAlternateFromOne ==
    /\ (player = "One") <=> (turns % 2 = 0)
    /\ \/ CoinsOf(grid, "One") = CoinsOf(grid, "Two")
       \/ CoinsOf(grid, "One") = CoinsOf(grid, "Two") + 1

\* C15: no iteration of the game loop calls play when the game is over: an
\* iteration that passes a column to play, or after which the engine has taken
\* one more play, started with the game not over.
C15_NoPlayWhenOver ==
    [][(play_arg' # -1 \/ plays' = plays + 1 \/ last' \in {"rejected", "scan_panic"})
          => ~over]_vars

\* C15 witness: the game is won, Enter was pressed while no animation ran,
\* and handle_play returned without calling play.
C15_Witness ==
    /\ ui_event = "enter"
    /\ play_arg = -1
    /\ winner # None
    /\ over
    /\ ~animation.some
    /\ last = "play"

\* C18: while the game is not over the selected column is a column of the
\* grid that is not full, and no call of play has stopped on an assertion.
C18_SelectedColumnPlayable ==
    /\ ~over => (selected_column \in 0..(COLUMNS - 1) /\ coins[selected_column] < ROWS)
    /\ ret.panic = ""
    /\ ui_event # "panic"
    /\ last \notin {"rejected", "scan_panic"}

\* C18 witness: Enter filled the last column while the first was full, the
\* game went on, and handle_play moved the selection around the edge to an
\* open column.
C18_Witness ==
    /\ ui_event = "enter"
    /\ play_arg = COLUMNS - 1
    /\ coins[COLUMNS - 1] = ROWS
    /\ coins[0] = ROWS
    /\ ~over
    /\ loop_steps >= 2
    /\ coins[selected_column] < ROWS

\* C19: no search loop of move_left or move_right runs forever.  While the
\* game is not over some column is not full and the loop stops on one within
\* COLUMNS iterations; when the game is over move_left and move_right return
\* at once and the selection stays.
C19_MoveLoopsEnd ==
    [][/\ ui_event' # "hung"
       /\ loop_steps' <= COLUMNS
       /\ (~over)' => \E c \in ValidColumns : coins'[c] < ROWS
       /\ (ui_event' \in {"left", "right"} /\ ~over) =>
             /\ loop_steps' \in 1..COLUMNS
             /\ coins'[selected_column'] < ROWS
       /\ (ui_event' \in {"left", "right"} /\ over) =>
             /\ loop_steps' = 0
             /\ selected_column' = selected_column
       /\ (ui_event' = "enter" /\ loop_steps' > 0) => coins'[selected_column'] < ROWS]_vars

\* C19 witness: Right was pressed on column 5 with the last and the first
\* column full: the loop wrapped around and stopped on column 1 after three
\* iterations.
C19_Witness ==
    /\ ui_event = "right"
    /\ loop_steps = 3
    /\ selected_column = 1
    /\ coins[COLUMNS - 1] = ROWS
    /\ coins[0] = ROWS
    /\ coins[1] < ROWS
    /\ ~over

TypeOK ==
    /\ grid \in [0..(size - 1) -> Player \cup {None}]
    /\ coins \in [0..(COLUMNS - 1) -> 0..ROWS]
    /\ player \in Player
    /\ winner \in Player \cup {None}
    /\ turns \in 0..size
====
